---- MODULE Spec2Model ----
(***************************************************************************)
(* Model of the internship-listings service: the module-level load of      *)
(* app.py, its ten GET handlers, and the library functions of              *)
(* data_processor.py (load_data, get_top_domains, get_salary_insights,     *)
(* get_jobs_by_city).                                                      *)
(*                                                                         *)
(* Text (CSV cells, query parameters) is a sequence of one-character       *)
(* strings, so that strip, split and numeric parsing are computed.         *)
(* Numbers are exact fractions n/d in lowest terms (d > 0); NaN is the     *)
(* pandas missing marker; Str(t) is a cell of an object-dtype column.      *)
(***************************************************************************)
EXTENDS Integers, Sequences, FiniteSets, TLC

\* ------------------------------------------------------------------ bounds
MaxRows == 2
NumClients == 2
MaxLimit == 3

\* ------------------------------------------------------------------ text
\* The characters used, in code-point order (Python compares str by code point).
Chars == <<" ", ",", "0", "1", "2", "5", "A", "B", "C", "P", "Q", "X", "Y", "a", "l", "x">>

Ord(c) == CHOOSE i \in 1..Len(Chars) : Chars[i] = c

Digits == {"0", "1", "2", "5"}

DigitVal(c) == CASE c = "0" -> 0 [] c = "1" -> 1 [] c = "2" -> 2 [] c = "5" -> 5

IsSpace(c) == c = " "

RECURSIVE LStrip(_)
LStrip(s) == IF s # <<>> /\ IsSpace(Head(s)) THEN LStrip(Tail(s)) ELSE s

RECURSIVE RStrip(_)
RStrip(s) ==
    IF s # <<>> /\ IsSpace(s[Len(s)]) THEN RStrip(SubSeq(s, 1, Len(s) - 1)) ELSE s

\* str.strip()
Strip(s) == RStrip(LStrip(s))

\* str.split(',')[0]: the text before the first comma (all of it without one)
RECURSIVE SplitFirst(_)
SplitFirst(s) ==
    IF s = <<>> \/ Head(s) = "," THEN <<>> ELSE <<Head(s)>> \o SplitFirst(Tail(s))

\* s < t for Python str
RECURSIVE LexLess(_, _)
LexLess(s, t) ==
    IF t = <<>> THEN FALSE
    ELSE IF s = <<>> THEN TRUE
    ELSE IF Head(s) = Head(t) THEN LexLess(Tail(s), Tail(t))
    ELSE Ord(Head(s)) < Ord(Head(t))

\* Text that float() / the CSV reader / to_numeric accept: here, unsigned
\* decimal integers.
IsNumericText(s) == s # <<>> /\ \A i \in 1..Len(s) : s[i] \in Digits

RECURSIVE ToInt(_)
ToInt(s) ==
    IF s = <<>> THEN 0
    ELSE 10 * ToInt(SubSeq(s, 1, Len(s) - 1)) + DigitVal(s[Len(s)])

\* ------------------------------------------------------------------ values
RECURSIVE Gcd(_, _)
Gcd(a, b) == IF b = 0 THEN a ELSE Gcd(b, a % b)

NaN == [k |-> "nan", n |-> 0, d |-> 1, s |-> <<>>]

Str(t) == [k |-> "str", n |-> 0, d |-> 1, s |-> t]

\* the number a/b (a >= 0, b > 0) in lowest terms
Frac(a, b) ==
    LET g == IF a = 0 THEN b ELSE Gcd(a, b)
    IN  [k |-> "num", n |-> a \div g, d |-> b \div g, s |-> <<>>]

Num(a) == Frac(a, 1)

IsNum(v) == v.k = "num"

IsNaN(v) == v.k = "nan"

\* IEEE comparisons: every comparison with NaN is false
Ge(a, b) == IsNum(a) /\ IsNum(b) /\ a.n * b.d >= b.n * a.d

Gt(a, b) == IsNum(a) /\ IsNum(b) /\ a.n * b.d > b.n * a.d

EqNum(a, b) == IsNum(a) /\ IsNum(b) /\ a.n * b.d = b.n * a.d

Add(a, b) == IF IsNum(a) /\ IsNum(b) THEN Frac(a.n * b.d + b.n * a.d, a.d * b.d) ELSE NaN

Half(a) == IF IsNum(a) THEN Frac(a.n, 2 * a.d) ELSE NaN

\* ------------------------------------------------------------------ sequences
RECURSIVE Unique(_)
\* Series.unique(): the distinct values in order of first occurrence
Unique(s) ==
    IF s = <<>> THEN <<>>
    ELSE LET u == Unique(SubSeq(s, 1, Len(s) - 1))
             x == s[Len(s)]
         IN  IF \E i \in 1..Len(u) : u[i] = x THEN u ELSE Append(u, x)

Count(s, x) == Cardinality({i \in 1..Len(s) : s[i] = x})

SeqHead(s, n) == SubSeq(s, 1, IF n < Len(s) THEN n ELSE Len(s))

RECURSIVE FilterEq(_, _, _)
\* df[df[col] == x]: the rows whose col equals x, in order
FilterEq(rows, col, x) ==
    IF rows = <<>> THEN <<>>
    ELSE IF Head(rows)[col] = x THEN <<Head(rows)>> \o FilterEq(Tail(rows), col, x)
    ELSE FilterEq(Tail(rows), col, x)

RECURSIVE FilterGe(_, _, _)
\* df[df[col] >= m]: the rows whose col is a number >= m, in order
FilterGe(rows, col, m) ==
    IF rows = <<>> THEN <<>>
    ELSE IF Ge(Head(rows)[col], m) THEN <<Head(rows)>> \o FilterGe(Tail(rows), col, m)
    ELSE FilterGe(Tail(rows), col, m)

Column(rows, col) == [i \in 1..Len(rows) |-> rows[i][col]]

RECURSIVE SumNums(_)
\* the sum of the numbers of s, NaN skipped (skipna=True)
SumNums(s) ==
    IF s = <<>> THEN Num(0)
    ELSE IF IsNum(Head(s)) THEN Add(Head(s), SumNums(Tail(s)))
    ELSE SumNums(Tail(s))

\* Series.mean(): the mean of the non-NaN values; NaN when there is none
Mean(s) ==
    LET c == Cardinality({i \in 1..Len(s) : IsNum(s[i])})
        t == SumNums(s)
    IN  IF c = 0 THEN NaN ELSE Frac(t.n, t.d * c)

\* an entry a stays ahead of a later entry e in a descending sort: NaN goes last
StaysAhead(a, e) == IF IsNaN(a.val) THEN IsNaN(e.val) ELSE IsNaN(e.val) \/ Ge(a.val, e.val)

InsertDesc(sorted, e) ==
    LET ahead == {i \in 1..Len(sorted) : \A j \in 1..i : StaysAhead(sorted[j], e)}
        k == Cardinality(ahead)
    IN  SubSeq(sorted, 1, k) \o <<e>> \o SubSeq(sorted, k + 1, Len(sorted))

RECURSIVE SortDesc(_)
\* sort_values(ascending=False): by val, descending, NaN last, ties in input order
SortDesc(s) ==
    IF s = <<>> THEN <<>>
    ELSE InsertDesc(SortDesc(SubSeq(s, 1, Len(s) - 1)), s[Len(s)])

InsertKey(sorted, x) ==
    LET k == Cardinality({i \in 1..Len(sorted) : LexLess(sorted[i], x)})
    IN  SubSeq(sorted, 1, k) \o <<x>> \o SubSeq(sorted, k + 1, Len(sorted))

RECURSIVE SortKeys(_)
SortKeys(s) ==
    IF s = <<>> THEN <<>>
    ELSE InsertKey(SortKeys(SubSeq(s, 1, Len(s) - 1)), s[Len(s)])

\* Series.value_counts(): one entry per distinct value, by count descending
ValueCounts(keys) ==
    LET u == Unique(keys)
    IN  SortDesc([i \in 1..Len(u) |-> [key |-> u[i], val |-> Num(Count(keys, u[i]))]])

\* df.groupby(by): the group keys, sorted (sort=True is the default)
GroupKeys(rows, by) == SortKeys(Unique(Column(rows, by)))

\* df.groupby(by)[col].mean()
GroupMean(rows, by, col) ==
    LET ks == GroupKeys(rows, by)
    IN  [i \in 1..Len(ks) |->
            [key |-> ks[i], val |-> Mean(Column(FilterEq(rows, by, ks[i]), col))]]

\* ------------------------------------------------------------------ the CSV file
SalaryCols == {"min_salary", "max_salary", "avg_salary"}

CsvRow(t, c, l, mn, mx, av) ==
    [job_title |-> t, company |-> c, location |-> l,
     min_salary |-> mn, max_salary |-> mx, avg_salary |-> av]

\* Rows a dataset file may hold (cells as written in the file; <<>> is an
\* empty cell).  The first is the row of the spec's round-trip example.
NumericRows ==
    { CsvRow(<<"A", " ">>, <<"P">>, <<"X", ",", " ", "Y">>, <<"1", "0">>, <<"2", "0">>, <<"0">>),
      CsvRow(<<"B">>, <<"Q">>, <<"Y">>, <<"2", "0">>, <<"5", "0">>, <<"2", "5">>),
      CsvRow(<<"A">>, <<"P">>, <<"X">>, <<"1", "0">>, <<"2", "0">>, <<"1", "5">>),
      CsvRow(<<"A">>, <<"Q">>, <<"Y">>, <<>>, <<>>, <<>>),
      CsvRow(<<"B">>, <<"P">>, <<"X">>, <<"1", "0">>, <<"1", "5">>, <<>>) }

TextRows ==
    { CsvRow(<<" ", "B">>, <<"Q">>, <<"X", " ", ",", "Y">>, <<"x">>, <<"2", "0">>, <<"x">>),
      CsvRow(<<"B">>, <<"P">>, <<" ", "X">>, <<"0">>, <<"2", "0">>, <<"0">>),
      CsvRow(<<"A">>, <<"P">>, <<"Y">>, <<"1", "0">>, <<"2", "0">>, <<"x">>) }

RECURSIVE SeqsUpTo(_, _)
\* the sequences over S of length 1..n
SeqsUpTo(S, n) ==
    IF n = 0 THEN {}
    ELSE LET shorter == SeqsUpTo(S, n - 1)
         IN  {<<x>> : x \in S} \cup shorter \cup {Append(q, x) : q \in shorter, x \in S}

MissingFile == [exists |-> FALSE, rows |-> <<>>]

FilesOver(S) == {MissingFile} \cup {[exists |-> TRUE, rows |-> r] : r \in SeqsUpTo(S, MaxRows)}

\* The file the server reads holds numeric or empty salary cells; the files
\* handed to load_data may also hold text in them.
ServedFiles == FilesOver(NumericRows)

LibFiles == FilesOver(NumericRows \cup TextRows)

\* the files of the concurrent specification: none, one row, and two rows
\* whose job titles differ
ConcFiles ==
    LET a == CsvRow(<<"A">>, <<"P">>, <<"X">>, <<"1", "0">>, <<"2", "0">>, <<"1", "5">>)
        b == CsvRow(<<"B">>, <<"Q">>, <<"Y">>, <<"2", "0">>, <<"5", "0">>, <<"2", "5">>)
    IN  {MissingFile, [exists |-> TRUE, rows |-> <<a>>], [exists |-> TRUE, rows |-> <<b, a>>]}

\* ------------------------------------------------------------------ loading
EmptyDataFrame == [cols |-> FALSE, rows |-> <<>>]

\* type inference of pd.read_csv: a column of numbers and empty cells is
\* numeric; one cell of text makes the whole column object (its cells str)
NumericColumn(rows, col) ==
    \A i \in 1..Len(rows) : rows[i][col] = <<>> \/ IsNumericText(rows[i][col])

ReadSalary(rows, i, col) ==
    IF rows[i][col] = <<>> THEN NaN
    ELSE IF NumericColumn(rows, col) THEN Num(ToInt(rows[i][col]))
    ELSE Str(rows[i][col])

\* pd.read_csv of an existing file
read_csv(file) ==
    [cols |-> TRUE,
     rows |-> [i \in 1..Len(file.rows) |->
                 [job_title |-> file.rows[i].job_title,
                  company |-> file.rows[i].company,
                  location |-> file.rows[i].location,
                  min_salary |-> ReadSalary(file.rows, i, "min_salary"),
                  max_salary |-> ReadSalary(file.rows, i, "max_salary"),
                  avg_salary |-> ReadSalary(file.rows, i, "avg_salary")]]]

\* app.py's module-level load: read_csv, or an empty DataFrame when it raises
AppLoad(file) == IF file.exists THEN read_csv(file) ELSE EmptyDataFrame

\* df.fillna({...: 0}) on one cell
FillNa(v) == IF IsNaN(v) THEN Num(0) ELSE v

\* pd.to_numeric(..., errors='coerce') on one cell
ToNumeric(v) ==
    IF v.k = "str" THEN (IF IsNumericText(v.s) THEN Num(ToInt(v.s)) ELSE NaN) ELSE v

\* the mask of load_data and the assignment under it
DeriveAvg(mn, mx, av) ==
    IF EqNum(av, Num(0)) /\ Gt(mn, Num(0)) /\ Gt(mx, Num(0)) THEN Half(Add(mn, mx)) ELSE av

CleanRow(r) ==
    LET mn == ToNumeric(FillNa(r.min_salary))
        mx == ToNumeric(FillNa(r.max_salary))
        av == ToNumeric(FillNa(r.avg_salary))
    IN  [job_title |-> Strip(r.job_title),
         company |-> r.company,
         location |-> SplitFirst(r.location),
         min_salary |-> mn,
         max_salary |-> mx,
         avg_salary |-> DeriveAvg(mn, mx, av)]

\* data_processor.load_data
load_data(file) ==
    IF ~file.exists THEN EmptyDataFrame
    ELSE LET raw == read_csv(file)
         IN  [cols |-> TRUE, rows |-> [i \in 1..Len(raw.rows) |-> CleanRow(raw.rows[i])]]

\* ------------------------------------------------------------------ requests
\* request.args.get(name): None when the parameter is absent
None == [present |-> FALSE, s |-> <<>>]

Given(t) == [present |-> TRUE, s |-> t]

\* Python truth of request.args.get(name): None and "" are false
Truthy(a) == a.present /\ a.s # <<>>

All == <<"A", "l", "l">>

Request(ep, domain, location, min_salary, domain1, domain2) ==
    [ep |-> ep, domain |-> domain, location |-> location, min_salary |-> min_salary,
     domain1 |-> domain1, domain2 |-> domain2]

PlainEndpoints ==
    {"top-domains", "salary-insights", "jobs-by-city", "domains", "locations",
     "company-hiring", "salary-ranges", "key-insights"}

PlainRequests == {Request(ep, None, None, None, None, None) : ep \in PlainEndpoints}

FilterRequests(ds, ls, ms) ==
    {Request("filter-data", d, l, m, None, None) : d \in ds, l \in ls, m \in ms}

CompareRequests(ds) ==
    {Request("compare-domains", None, None, None, d1, d2) : d1 \in ds, d2 \in ds}

\* the requests of the sequential specification
Requests ==
    PlainRequests
    \cup FilterRequests({None, Given(<<>>), Given(All), Given(<<"A">>), Given(<<"C">>)},
                        {None, Given(All), Given(<<"X">>)},
                        {None, Given(<<>>), Given(<<"1", "5">>), Given(<<"a", "x">>)})
    \cup CompareRequests({None, Given(<<>>), Given(<<"A">>), Given(<<"B">>), Given(<<"C">>)})

\* the requests of the concurrent specification: every endpoint, and for the
\* two with parameters a passing and a failing request each
ConcRequests ==
    PlainRequests
    \cup { Request("filter-data", Given(<<"A">>), None, Given(<<"1", "5">>), None, None),
           Request("filter-data", None, Given(<<"X">>), Given(<<"a", "x">>), None, None),
           Request("compare-domains", None, None, None, Given(<<"A">>), Given(<<"C">>)),
           Request("compare-domains", None, None, None, Given(<<>>), Given(<<"A">>)) }

\* ------------------------------------------------------------------ responses
HeadDefault == 10

TopN == 5

Ok(body) == [status |-> 200, body |-> body]

\* return jsonify({"error": ...}), code
Error(code, msg) == [status |-> code, body |-> [error |-> msg]]

NoResponse == [status |-> 0, body |-> <<>>]

\* a step of a handler: the DataFrame it leaves, or the exception it raises
Value(d) == [raised |-> FALSE, exc |-> "", df |-> d]

Raise(exc) == [raised |-> TRUE, exc |-> exc, df |-> EmptyDataFrame]

\* value_counts().reset_index() ... head(n).to_dict(orient='records')
CountRecords(d, col, n) == SeqHead(ValueCounts(Column(d.rows, col)), n)

\* /api/top-domains
top_domains(d) ==
    IF ~d.cols THEN Error(500, "KeyError")
    ELSE LET e == CountRecords(d, "job_title", HeadDefault)
         IN  Ok([i \in 1..Len(e) |-> [domain |-> e[i].key, count |-> e[i].val.n]])

\* /api/salary-insights
salary_insights(d) ==
    IF ~d.cols THEN Error(500, "KeyError")
    ELSE LET e == SeqHead(SortDesc(GroupMean(d.rows, "job_title", "avg_salary")), HeadDefault)
         IN  Ok([i \in 1..Len(e) |-> [domain |-> e[i].key, avg_salary |-> e[i].val]])

\* /api/jobs-by-city
jobs_by_city(d) ==
    IF ~d.cols THEN Error(500, "KeyError")
    ELSE LET e == CountRecords(d, "location", HeadDefault)
         IN  Ok([i \in 1..Len(e) |-> [city |-> e[i].key, count |-> e[i].val.n]])

\* /api/domains
all_domains(d) ==
    IF ~d.cols THEN Error(500, "KeyError") ELSE Ok(Unique(Column(d.rows, "job_title")))

\* /api/locations
all_locations(d) ==
    IF ~d.cols THEN Error(500, "KeyError") ELSE Ok(Unique(Column(d.rows, "location")))

\* /api/company-hiring
company_hiring(d) ==
    IF ~d.cols THEN Error(500, "KeyError")
    ELSE LET e == CountRecords(d, "company", HeadDefault)
         IN  Ok([i \in 1..Len(e) |-> [company |-> e[i].key, count |-> e[i].val.n]])

\* /api/salary-ranges
salary_ranges(d) ==
    IF ~d.cols THEN Error(500, "KeyError")
    ELSE LET ks == GroupKeys(d.rows, "job_title")
         IN  Ok([i \in 1..Len(ks) |->
                   LET g == FilterEq(d.rows, "job_title", ks[i])
                   IN  [domain |-> ks[i],
                        min_salary |-> Mean(Column(g, "min_salary")),
                        max_salary |-> Mean(Column(g, "max_salary")),
                        avg_salary |-> Mean(Column(g, "avg_salary"))]])

\* /api/key-insights
key_insights(d) ==
    IF ~d.cols THEN Error(500, "KeyError")
    ELSE IF d.rows = <<>> THEN Error(500, "IndexError")
    ELSE Ok([top_paying_domain |->
                 SortDesc(GroupMean(d.rows, "job_title", "avg_salary"))[1].key,
             top_hiring_domain |-> ValueCounts(Column(d.rows, "job_title"))[1].key,
             top_hiring_company |-> ValueCounts(Column(d.rows, "company"))[1].key,
             top_location |-> ValueCounts(Column(d.rows, "location"))[1].key,
             avg_internship_salary |-> Mean(Column(d.rows, "avg_salary")),
             total_companies |-> Len(Unique(Column(d.rows, "company"))),
             total_domains |-> Len(Unique(Column(d.rows, "job_title"))),
             total_listings |-> Len(d.rows)])

\* filter_data: filtered_df = df.copy()
CopyStep(d) == Value(d)

\* filter_data: the equality filter on one column, applied when the parameter
\* is truthy and not 'All'
EqStep(f, arg, col) ==
    IF Truthy(arg) /\ arg.s # All
    THEN IF ~f.cols THEN Raise("KeyError")
         ELSE Value([cols |-> TRUE, rows |-> FilterEq(f.rows, col, arg.s)])
    ELSE Value(f)

\* filter_data: float(min_salary) and the avg_salary filter
MinSalaryStep(f, arg) ==
    IF Truthy(arg)
    THEN IF ~IsNumericText(arg.s) THEN Raise("ValueError")
         ELSE IF ~f.cols THEN Raise("KeyError")
         ELSE Value([cols |-> TRUE, rows |-> FilterGe(f.rows, "avg_salary", Num(ToInt(arg.s)))])
    ELSE Value(f)

\* filter_data: the except clause
filter_error(exc) == Error(500, exc)

\* the check with "and" for "or"
MissingDomainBoth(d1, d2) == ~Truthy(d1) /\ ~Truthy(d2)

\* compare_domains: if not domain1 or not domain2
MissingDomain(d1, d2) == ~Truthy(d1) \/ ~Truthy(d2)

\* compare_domains: df[df['Job Title'] == domain]
SelectStep(d, arg) ==
    IF ~d.cols THEN Raise("KeyError")
    ELSE Value([cols |-> TRUE, rows |-> FilterEq(d.rows, "job_title", arg.s)])

\* value_counts().head(5).to_dict()
TopCounts(rows, col) ==
    LET e == SeqHead(ValueCounts(Column(rows, col)), TopN)
    IN  [i \in 1..Len(e) |-> [key |-> e[i].key, count |-> e[i].val.n]]

\* compare_domains: the statistics of one domain
DomainStats(name, data) ==
    [name |-> name,
     count |-> Len(data.rows),
     avg_salary |-> Mean(Column(data.rows, "avg_salary")),
     min_salary |-> Mean(Column(data.rows, "min_salary")),
     max_salary |-> Mean(Column(data.rows, "max_salary")),
     top_companies |-> TopCounts(data.rows, "company"),
     top_locations |-> TopCounts(data.rows, "location")]

Comparison(a1, data1, a2, data2) ==
    Ok([domain1 |-> DomainStats(a1.s, data1), domain2 |-> DomainStats(a2.s, data2)])

\* ------------------------------------------------------------------ data_processor
Returned(entries) == [raised |-> FALSE, exc |-> "", entries |-> entries]

Raised(exc) == [raised |-> TRUE, exc |-> exc, entries |-> <<>>]

\* get_top_domains without its head(limit)
get_top_domains_all(d, limit) ==
    IF ~d.cols THEN Raised("KeyError")
    ELSE Returned(ValueCounts(Column(d.rows, "job_title")))

\* data_processor.get_top_domains: the dict, as its items in order
get_top_domains(d, limit) ==
    IF ~d.cols THEN Raised("KeyError")
    ELSE Returned(SeqHead(ValueCounts(Column(d.rows, "job_title")), limit))

\* data_processor.get_salary_insights
get_salary_insights(d, limit) ==
    IF ~d.cols THEN Raised("KeyError")
    ELSE Returned(SeqHead(SortDesc(GroupMean(d.rows, "job_title", "avg_salary")), limit))

\* data_processor.get_jobs_by_city
get_jobs_by_city(d, limit) ==
    IF ~d.cols THEN Raised("KeyError")
    ELSE Returned(SeqHead(ValueCounts(Column(d.rows, "location")), limit))

\* ------------------------------------------------------------------ state
VARIABLES
    file,    \* the dataset file on disk
    booted,  \* app.py's module-level code has run
    df,      \* app.py's global DataFrame
    cl,      \* per request thread: position, request, locals, response
    lib      \* a caller of data_processor: its table and the last call

vars == <<file, booted, df, cl, lib>>

Clients == 1..NumClients

Idle ==
    [pc |-> "idle", req |-> Request("", None, None, None, None, None),
     filtered |-> EmptyDataFrame, data1 |-> EmptyDataFrame, data2 |-> EmptyDataFrame,
     resp |-> NoResponse]

LibIdle == [pc |-> "init", table |-> EmptyDataFrame, fn |-> "", limit |-> 0, result |-> Returned(<<>>)]

InitWith(files) ==
    /\ file \in files
    /\ booted = FALSE
    /\ df = EmptyDataFrame
    /\ cl = [c \in Clients |-> Idle]
    /\ lib = LibIdle

Init == InitWith(ServedFiles)

InitLib == InitWith(LibFiles)

\* app.py:22-30
Boot ==
    /\ ~booted
    /\ booted' = TRUE
    /\ df' = AppLoad(file)
    /\ UNCHANGED <<file, cl, lib>>

\* Flask dispatches a request to its handler, which reads request.args
Begin(c, r) ==
    /\ booted
    /\ cl[c].pc = "idle"
    /\ cl' = [cl EXCEPT ![c] = [Idle EXCEPT !.pc = "called", !.req = r]]
    /\ UNCHANGED <<file, booted, df, lib>>

\* the handler returns: its locals are gone, the response is on the wire
Return(c, r) == cl' = [cl EXCEPT ![c] = [Idle EXCEPT !.pc = "done", !.req = cl[c].req, !.resp = r]]

At(c, ep, pc) == cl[c].pc = pc /\ cl[c].req.ep = ep

Plain(c, ep, r) ==
    /\ At(c, ep, "called")
    /\ Return(c, r)
    /\ UNCHANGED <<file, booted, df, lib>>

GetTopDomains(c) == Plain(c, "top-domains", top_domains(df))

GetSalaryInsights(c) == Plain(c, "salary-insights", salary_insights(df))

GetJobsByCity(c) == Plain(c, "jobs-by-city", jobs_by_city(df))

GetDomains(c) == Plain(c, "domains", all_domains(df))

GetLocations(c) == Plain(c, "locations", all_locations(df))

GetCompanyHiring(c) == Plain(c, "company-hiring", company_hiring(df))

GetSalaryRanges(c) == Plain(c, "salary-ranges", salary_ranges(df))

GetKeyInsights(c) == Plain(c, "key-insights", key_insights(df))

\* one statement of filter_data: on an exception the except clause answers
FilterAdvance(c, out, pc) ==
    IF out.raised THEN Return(c, filter_error(out.exc))
    ELSE cl' = [cl EXCEPT ![c].pc = pc, ![c].filtered = out.df]

FilterCopy(c) ==
    /\ At(c, "filter-data", "called")
    /\ FilterAdvance(c, CopyStep(df), "copied")
    /\ UNCHANGED <<file, booted, df, lib>>

\* the domain filter written to the global df instead of the local copy
FilterByDomainInPlace(c) ==
    /\ At(c, "filter-data", "copied")
    /\ LET out == EqStep(cl[c].filtered, cl[c].req.domain, "job_title")
       IN  /\ FilterAdvance(c, out, "by_domain")
           /\ df' = IF out.raised THEN df ELSE out.df
    /\ UNCHANGED <<file, booted, lib>>

FilterByDomain(c) ==
    /\ At(c, "filter-data", "copied")
    /\ FilterAdvance(c, EqStep(cl[c].filtered, cl[c].req.domain, "job_title"), "by_domain")
    /\ UNCHANGED <<file, booted, df, lib>>

FilterByLocation(c) ==
    /\ At(c, "filter-data", "by_domain")
    /\ FilterAdvance(c, EqStep(cl[c].filtered, cl[c].req.location, "location"), "by_location")
    /\ UNCHANGED <<file, booted, df, lib>>

\* the min_salary filter, then jsonify(filtered_df.to_dict(orient='records'))
FilterByMinSalary(c) ==
    /\ At(c, "filter-data", "by_location")
    /\ LET out == MinSalaryStep(cl[c].filtered, cl[c].req.min_salary)
       IN  IF out.raised THEN Return(c, filter_error(out.exc))
           ELSE Return(c, Ok(out.df.rows))
    /\ UNCHANGED <<file, booted, df, lib>>

\* compare_domains: the parameter check and its 400
CompareCheck(c) ==
    /\ At(c, "compare-domains", "called")
    /\ IF MissingDomain(cl[c].req.domain1, cl[c].req.domain2)
       THEN Return(c, Error(400, "Both domains are required for comparison"))
       ELSE cl' = [cl EXCEPT ![c].pc = "checked"]
    /\ UNCHANGED <<file, booted, df, lib>>

\* compare_domains: domain1_data, domain2_data
CompareSelect(c) ==
    /\ At(c, "compare-domains", "checked")
    /\ LET o1 == SelectStep(df, cl[c].req.domain1)
           o2 == SelectStep(df, cl[c].req.domain2)
       IN  IF o1.raised THEN Return(c, Error(500, o1.exc))
           ELSE IF o2.raised THEN Return(c, Error(500, o2.exc))
           ELSE cl' = [cl EXCEPT ![c].pc = "selected", ![c].data1 = o1.df, ![c].data2 = o2.df]
    /\ UNCHANGED <<file, booted, df, lib>>

\* compare_domains: the comparison dict and jsonify
CompareRespond(c) ==
    /\ At(c, "compare-domains", "selected")
    /\ Return(c, Comparison(cl[c].req.domain1, cl[c].data1, cl[c].req.domain2, cl[c].data2))
    /\ UNCHANGED <<file, booted, df, lib>>

\* the response is delivered and the thread takes the next request
Finish(c) ==
    /\ cl[c].pc = "done"
    /\ cl' = [cl EXCEPT ![c] = Idle]
    /\ UNCHANGED <<file, booted, df, lib>>

Handle(c) ==
    \/ GetTopDomains(c)
    \/ GetSalaryInsights(c)
    \/ GetJobsByCity(c)
    \/ GetDomains(c)
    \/ GetLocations(c)
    \/ GetCompanyHiring(c)
    \/ GetSalaryRanges(c)
    \/ GetKeyInsights(c)
    \/ FilterCopy(c)
    \/ FilterByDomain(c)
    \/ FilterByLocation(c)
    \/ FilterByMinSalary(c)
    \/ CompareCheck(c)
    \/ CompareSelect(c)
    \/ CompareRespond(c)
    \/ Finish(c)

\* one request at a time
Next ==
    \/ Boot
    \/ \E r \in Requests : Begin(1, r)
    \/ Handle(1)

Spec == Init /\ [][Next]_vars

\* request threads interleaved statement by statement
NextConc ==
    \/ Boot
    \/ \E c \in Clients, r \in ConcRequests : Begin(c, r)
    \/ \E c \in Clients : Handle(c)

InitConc == InitWith(ConcFiles)

SpecConc == InitConc /\ [][NextConc]_vars

\* a caller of data_processor: load_data, then the query functions
LibLoad ==
    /\ lib.pc = "init"
    /\ lib' = [LibIdle EXCEPT !.pc = "loaded", !.table = load_data(file)]
    /\ UNCHANGED <<file, booted, df, cl>>

LibCall(fn, limit, result) ==
    /\ lib.pc # "init"
    /\ lib' = [lib EXCEPT !.pc = "returned", !.fn = fn, !.limit = limit, !.result = result]
    /\ UNCHANGED <<file, booted, df, cl>>

LibTopDomains(limit) == LibCall("get_top_domains", limit, get_top_domains(lib.table, limit))

LibSalaryInsights(limit) ==
    LibCall("get_salary_insights", limit, get_salary_insights(lib.table, limit))

LibJobsByCity(limit) == LibCall("get_jobs_by_city", limit, get_jobs_by_city(lib.table, limit))

Limits == 0..MaxLimit

NextLib ==
    \/ LibLoad
    \/ \E n \in Limits : LibTopDomains(n)
    \/ \E n \in Limits : LibSalaryInsights(n)
    \/ \E n \in Limits : LibJobsByCity(n)

SpecLib == InitLib /\ [][NextLib]_vars

\* ------------------------------------------------------------------ claims
Done(c, ep) == cl[c].pc = "done" /\ cl[c].req.ep = ep

\* a parameter that is absent or the empty string
AbsentOrEmpty(a) == ~a.present \/ a.s = <<>>

\* C1: a filter_listings request whose min_salary is present (and not empty)
\* but is not a number is answered with HTTP 400 and an error body (stated
\* here for a Table that loaded, where no other failure can precede it).
C1_InvalidMinSalaryIs400 ==
    \A c \in Clients :
        (Done(c, "filter-data") /\ df.cols /\ ~AbsentOrEmpty(cl[c].req.min_salary)
            /\ ~IsNumericText(cl[c].req.min_salary.s))
        => (cl[c].resp.status = 400 /\ "error" \in DOMAIN cl[c].resp.body)

\* C2: on the empty Table a failed load leaves, key_insights answers with a
\* success result whose total_listings is 0.
C2_KeyInsightsOnEmptyTable ==
    \A c \in Clients :
        (Done(c, "key-insights") /\ df = EmptyDataFrame)
        => (cl[c].resp.status = 200 /\ cl[c].resp.body.total_listings = 0)

\* C3: compare_domains answers 400 with an error body exactly when domain1 or
\* domain2 is absent or empty, and in that case never reaches the selection
\* of the domains' rows or the aggregates computed from them.
C3_CompareMissingParameter ==
    \A c \in Clients :
        cl[c].req.ep = "compare-domains" =>
            LET missing == AbsentOrEmpty(cl[c].req.domain1) \/ AbsentOrEmpty(cl[c].req.domain2)
            IN  /\ missing => cl[c].pc \in {"called", "done"}
                /\ cl[c].pc = "done" =>
                     /\ (cl[c].resp.status = 400) <=> missing
                     /\ missing => DOMAIN cl[c].resp.body = {"error"}

C3_Witness ==
    \E c \in Clients :
        /\ Done(c, "compare-domains")
        /\ cl[c].req.domain1 = Given(<<>>)
        /\ cl[c].req.domain2 = Given(<<"A">>)
        /\ cl[c].resp.status = 400

\* C4: after the load every salary field of the Table the queries read is a
\* number, 0 where the file's cell is empty or not numeric, and no listing a
\* query returns carries a NaN salary.
C4_SalariesAreNumbers ==
    /\ booted /\ df.cols =>
         \A i \in 1..Len(df.rows) : \A col \in SalaryCols :
             /\ IsNum(df.rows[i][col])
             /\ ~IsNumericText(file.rows[i][col]) => df.rows[i][col] = Num(0)
    /\ \A c \in Clients :
         (Done(c, "filter-data") /\ cl[c].resp.status = 200) =>
             \A i \in 1..Len(cl[c].resp.body) : \A col \in SalaryCols :
                 IsNum(cl[c].resp.body[i][col])

\* the number a salary cell stands for: 0 when it is empty
CellNumber(text) == IF text = <<>> THEN Num(0) ELSE Num(ToInt(text))

\* C5: load turns every CSV row into a Listing whose job_title is the row's,
\* trimmed; whose location is the row's up to its first comma, trimmed; and
\* whose avg_salary (the row's salary cells being numbers or empty) is the
\* midpoint of min and max when the row's avg is 0 and both are positive, and
\* the row's own avg otherwise.
C5_LoadCleansRows ==
    (lib.pc # "init" /\ file.exists) =>
        /\ lib.table.cols
        /\ Len(lib.table.rows) = Len(file.rows)
        /\ \A i \in 1..Len(file.rows) :
             LET r == file.rows[i]
                 mn == CellNumber(r.min_salary)
                 mx == CellNumber(r.max_salary)
                 av == CellNumber(r.avg_salary)
             IN  /\ lib.table.rows[i].job_title = Strip(r.job_title)
                 /\ lib.table.rows[i].location = Strip(SplitFirst(r.location))
                 /\ (\A col \in SalaryCols : r[col] = <<>> \/ IsNumericText(r[col])) =>
                      lib.table.rows[i].avg_salary =
                        IF av.n = 0 /\ mn.n > 0 /\ mx.n > 0 THEN Frac(mn.n + mx.n, 2) ELSE av

\* a listing passes the filters of a request that are given
Passes(row, r) ==
    /\ (~AbsentOrEmpty(r.domain) /\ r.domain.s # All) => row.job_title = r.domain.s
    /\ (~AbsentOrEmpty(r.location) /\ r.location.s # All) => row.location = r.location.s
    /\ ~AbsentOrEmpty(r.min_salary) =>
         /\ IsNum(row.avg_salary)
         /\ row.avg_salary.n >= ToInt(r.min_salary.s) * row.avg_salary.d

RECURSIVE Passing(_, _)
Passing(rows, r) ==
    IF rows = <<>> THEN <<>>
    ELSE IF Passes(Head(rows), r) THEN <<Head(rows)>> \o Passing(Tail(rows), r)
    ELSE Passing(Tail(rows), r)

\* C6: whatever the Table and the parameters (min_salary, when given, being a
\* number), filter_listings returns exactly the listings that pass every
\* filter given, in Table order.
C6_FilterReturnsMatches ==
    \A c \in Clients :
        (Done(c, "filter-data")
            /\ (AbsentOrEmpty(cl[c].req.min_salary) \/ IsNumericText(cl[c].req.min_salary.s)))
        => (cl[c].resp.status = 200 /\ cl[c].resp.body = Passing(df.rows, cl[c].req))

RECURSIVE SumCounts(_)
SumCounts(e) == IF e = <<>> THEN 0 ELSE Head(e).val.n + SumCounts(Tail(e))

C8_SalaryRangesRows ==
    \A c \in Clients :
        Done(c, "salary-ranges") =>
            LET titles == Unique(Column(df.rows, "job_title"))
                b == cl[c].resp.body
            IN  /\ cl[c].resp.status = 200
                /\ Len(b) = Len(titles)
                /\ \A i \in 1..Len(titles) :
                     LET g == FilterEq(df.rows, "job_title", titles[i])
                     IN  /\ b[i].domain = titles[i]
                         /\ b[i].min_salary = Mean(Column(g, "min_salary"))
                         /\ b[i].max_salary = Mean(Column(g, "max_salary"))
                         /\ b[i].avg_salary = Mean(Column(g, "avg_salary"))

\* the response of a request handled with no other request in progress
AloneResponse(d, r) ==
    CASE r.ep = "top-domains" -> top_domains(d)
      [] r.ep = "salary-insights" -> salary_insights(d)
      [] r.ep = "jobs-by-city" -> jobs_by_city(d)
      [] r.ep = "domains" -> all_domains(d)
      [] r.ep = "locations" -> all_locations(d)
      [] r.ep = "company-hiring" -> company_hiring(d)
      [] r.ep = "salary-ranges" -> salary_ranges(d)
      [] r.ep = "key-insights" -> key_insights(d)
      [] r.ep = "filter-data" ->
           LET o1 == EqStep(d, r.domain, "job_title")
               o2 == EqStep(o1.df, r.location, "location")
               o3 == MinSalaryStep(o2.df, r.min_salary)
           IN  IF o1.raised THEN Error(500, o1.exc)
               ELSE IF o2.raised THEN Error(500, o2.exc)
               ELSE IF o3.raised THEN Error(500, o3.exc)
               ELSE Ok(o3.df.rows)
      [] r.ep = "compare-domains" ->
           IF AbsentOrEmpty(r.domain1) \/ AbsentOrEmpty(r.domain2)
           THEN Error(400, "Both domains are required for comparison")
           ELSE IF ~d.cols THEN Error(500, "KeyError")
           ELSE Comparison(r.domain1, [cols |-> TRUE, rows |-> FilterEq(d.rows, "job_title", r.domain1.s)],
                           r.domain2, [cols |-> TRUE, rows |-> FilterEq(d.rows, "job_title", r.domain2.s)])

\* C9: under any interleaving of request threads the shared Table stays what
\* the load made it, and every response is the one its request gets alone.
C9_TableFrozenResponsesAlone ==
    booted =>
        /\ df = AppLoad(file)
        /\ \A c \in Clients :
             cl[c].pc = "done" => cl[c].resp = AloneResponse(AppLoad(file), cl[c].req)

C9_Witness ==
    \E c1, c2 \in Clients :
        /\ c1 # c2
        /\ Done(c1, "filter-data")
        /\ cl[c1].resp.status = 200
        /\ Len(cl[c1].resp.body) < Len(df.rows)
        /\ cl[c2].pc \in {"copied", "by_domain", "by_location", "selected"}

\* C10: every mean in a result is taken over at least one listing.
C10_NoMeanOverZeroRows ==
    \A c \in Clients :
        (cl[c].pc = "done" /\ cl[c].resp.status = 200) =>
            /\ cl[c].req.ep = "compare-domains" =>
                 /\ cl[c].resp.body.domain1.count >= 1
                 /\ cl[c].resp.body.domain2.count >= 1
            /\ cl[c].req.ep = "key-insights" => cl[c].resp.body.total_listings >= 1
            /\ cl[c].req.ep \in {"salary-insights", "salary-ranges"} =>
                 \A i \in 1..Len(cl[c].resp.body) :
                     Count(Column(df.rows, "job_title"), cl[c].resp.body[i].domain) >= 1
====
